---- MODULE Spec2Model ----
(***************************************************************************)
(* A model of src/utils/data_generator.py: the five sample-data generators *)
(* and the process-wide random source (np.random) and wall clock           *)
(* (datetime.now()) they share.                                            *)
(*                                                                         *)
(* Representation.  A timestamp is a whole number of hours since           *)
(* 2018-01-01 00:00 (a Monday; 2018 and 2019 are not leap years).  Reals   *)
(* are scaled integers: the scale is named in each definition.  The random *)
(* source is a deterministic generator over RngModulus states: one state   *)
(* is consumed per variate, and every variate is a function of the state   *)
(* it consumes, as with numpy's generator; the start state is arbitrary.   *)
(* A data frame is a record [status, rows]: status "ok" with the sequence  *)
(* of rows, or the exception the call ends with and no rows.               *)
(***************************************************************************)
EXTENDS Integers, Sequences, FiniteSets, TLC

VARIABLES
    rng,        \* state of np.random, the process-wide random source
    clock,      \* the last value datetime.now() returned
    lastOp,     \* the last call made: its table is still held by the caller
    args,       \* its arguments
    result,     \* the data frame it returned, or the exception it raised
    rngBefore,  \* the state of np.random when it was called (rng when no call is held)
    draws,      \* the number of variates it drew
    lastRun,    \* the last metrics call made right after np.random.seed
    prevRun     \* the metrics call right after np.random.seed before it

vars == <<rng, clock, lastOp, args, result, rngBefore, draws, lastRun, prevRun>>

----------------------------------------------------------------------------
(* Bounds of the model.                                                    *)

MaxCategories == 2      \* num_categories ranges over -1..MaxCategories
MaxRecords == 3         \* num_records, num_customers: -1..MaxRecords
MaxDays == 2            \* num_days: -1..MaxDays
MaxCohorts == 2         \* num_cohorts: -1..MaxCohorts
MaxElapsed == 2         \* hours the clock advances over a behaviour
MaxSpanDays == 12       \* the longest explicit start_date..end_date span
MaxTimePoints == 13     \* calls with a longer date range are left out

----------------------------------------------------------------------------
(* Python values.                                                          *)

NoDate == -1            \* None, for start_date and end_date

Max(a, b) == IF a >= b THEN a ELSE b
Min(a, b) == IF a <= b THEN a ELSE b

\* range(n): empty when n <= 0
Range(n) == [i \in 1..Max(n, 0) |-> i - 1]

\* e, with v evaluated first: TLC passes the arguments of an operator
\* unevaluated, and a loop must not carry its whole history as one expression
Having(v, e) == IF v = v THEN e ELSE e

Frame(rows) == [status |-> "ok", rows |-> rows]
Raised(exception) == [status |-> exception, rows |-> << >>]

----------------------------------------------------------------------------
(* The calendar: datetime, timedelta and pandas timestamps.                *)

HoursPerDay == 24
DaysPerYear == 365
MonthDays == <<31, 28, 31, 30, 31, 30, 31, 31, 30, 31, 30, 31>>

Days(n) == n * HoursPerDay              \* timedelta(days=n)

RECURSIVE DaysBeforeMonth(_)
DaysBeforeMonth(m) == IF m = 0 THEN 0 ELSE DaysBeforeMonth(m - 1) + MonthDays[m]

\* the day the k-th month since the epoch starts
MonthStartDay(k) == DaysPerYear * (k \div 12) + DaysBeforeMonth(k % 12)

DayOf(t) == t \div HoursPerDay
HourOf(t) == t % HoursPerDay
MonthOf(t) == CHOOSE k \in 0..47 : MonthStartDay(k) <= DayOf(t) /\ DayOf(t) < MonthStartDay(k + 1)
DayOfMonth(t) == DayOf(t) - MonthStartDay(MonthOf(t)) + 1
DayOfYear(t) == (DayOf(t) % DaysPerYear) + 1      \* Timestamp.dayofyear
Weekday(t) == DayOf(t) % 7                        \* 0 is Monday, 6 is Sunday

\* the wall clock when the process starts: 2019-03-15 10:00
Clock0 == Days(DaysPerYear + 31 + 28 + 14) + 10
MaxClock == Clock0 + MaxElapsed

----------------------------------------------------------------------------
(* pd.date_range.  A fixed-step frequency ('H', 'D', 'W') starts at the    *)
(* first point of its grid at or after start ('W' is anchored on Sunday    *)
(* and, like 'MS', keeps start's time of day) and runs while <= end.       *)

Freqs == {"H", "D", "W", "MS"}

Step(freq) == IF freq = "H" THEN 1 ELSE IF freq = "D" THEN Days(1) ELSE Days(7)

\* the k-th point (k >= 1) of the range that starts at `start`
RangePoint(start, freq, k) ==
    IF freq = "MS"
    THEN LET first == IF DayOfMonth(start) = 1 THEN MonthOf(start) ELSE MonthOf(start) + 1
         IN  Days(MonthStartDay(first + k - 1)) + HourOf(start)
    ELSE LET first == IF freq = "W" THEN start + Days((6 - Weekday(start)) % 7) ELSE start
         IN  first + (k - 1) * Step(freq)

RECURSIVE CountPoints(_, _, _, _)
CountPoints(start, end, freq, k) ==
    IF RangePoint(start, freq, k + 1) > end THEN k ELSE CountPoints(start, end, freq, k + 1)

\* the number of points of date_range(start=start, end=end, freq=freq)
RangeCount(start, end, freq) ==
    IF freq = "MS"
    THEN CountPoints(start, end, freq, 0)
    ELSE LET first == RangePoint(start, freq, 1)
         IN  IF end < first THEN 0 ELSE (end - first) \div Step(freq) + 1

\* pd.date_range(start=start, end=end, freq=freq)
DateRange(start, end, freq) ==
    [k \in 1..RangeCount(start, end, freq) |-> RangePoint(start, freq, k)]

\* pd.date_range(start=start, periods=periods, freq=freq), periods >= 0
DateRangePeriods(start, periods, freq) ==
    [k \in 1..periods |-> RangePoint(start, freq, k)]

----------------------------------------------------------------------------
(* np.random.  One state per variate; a variate is read off the state it   *)
(* consumes, u = state / RngModulus standing for the uniform [0, 1) double *)
(* behind it.                                                              *)

RngModulus == 32
RngStates == 0..(RngModulus - 1)

NextRng(s) == (5 * s + 3) % RngModulus

RECURSIVE Iterate(_, _)
Iterate(s, k) == IF k <= 0 THEN s ELSE Iterate(NextRng(s), k - 1)

\* the state k variates later: NextRng applied k times.  NextRng runs through
\* all RngModulus states in one cycle, so RngModulus applications change nothing
Adv(s, k) == IF k <= 0 THEN s ELSE Iterate(s, k % RngModulus)

\* np.random.seed(seed)
SeedState(seed) == seed % RngModulus

\* np.random.randint(lo, hi): an integer of lo..hi-1
RandInt(s, lo, hi) == lo + (s * (hi - lo)) \div RngModulus

\* np.random.uniform(lo, hi), in the unit lo and hi are given in
Uniform(s, lo, hi) == lo + (s * (hi - lo)) \div RngModulus

\* np.random.random() < p, p in percent
RandomBelow(s, percent) == s * 100 < percent * RngModulus

\* np.random.normal(0, 1), in standard deviations: the normal distribution is
\* unbounded, so the table holds values far in both tails
Deviates == <<-200, -7, -1, 0, 1, 7, 200>>
Normal(s) == Deviates[(s % Len(Deviates)) + 1]

\* np.random.choice(labels): an index 1..Len(labels)
Choice(s, labels) == labels[RandInt(s, 0, Len(labels)) + 1]

\* np.random.choice(labels, p=weights), weights in percent: the first label
\* whose cumulative weight exceeds u
RECURSIVE WeightedFrom(_, _, _, _, _)
WeightedFrom(s, labels, weights, i, cum) ==
    IF i >= Len(labels) \/ s * 100 < (cum + weights[i]) * RngModulus
    THEN labels[i]
    ELSE WeightedFrom(s, labels, weights, i + 1, cum + weights[i])
WeightedChoice(s, labels, weights) == WeightedFrom(s, labels, weights, 1, 0)

\* 1000 * sin(2 * pi * num / den), by Bhaskara's approximation on degrees
Sin1000(num, den) ==
    LET deg  == ((360 * num) \div den) % 360
        half == IF deg < 180 THEN deg ELSE deg - 180
        p    == half * (180 - half)
        v    == (4000 * p) \div (40500 - p)
    IN  IF deg < 180 THEN v ELSE 0 - v

----------------------------------------------------------------------------
(* generate_time_series_data.  value is in tenths.                         *)

DefaultLookbackDays == 90

\* one row of the table; three variates are drawn, from state s on
TimeSeriesRow(date, category, n, s) ==
    LET trend    == 5 * n
        seasonal == Sin1000(DayOfYear(date), DaysPerYear)
        noise    == 500 * Normal(s)
        value    == 10000 + trend + seasonal + noise
    IN  [date |-> date, category |-> category, value |-> Max(0, value),
         transactions |-> RandInt(NextRng(s), 50, 500),
         users |-> RandInt(Adv(s, 2), 10, 200)]

\* for category in categories: data.append(...), for one date: the rows
\* appended to the `size` rows there are, variates read off s and on
InnerLoop(date, categories, size, s) ==
    [c \in 1..Len(categories) |->
        TimeSeriesRow(date, categories[c], size + c - 1, Adv(s, 3 * (c - 1)))]

\* for date in dates: the inner loop
RECURSIVE TimeSeriesLoop(_, _, _, _, _)
TimeSeriesLoop(dates, categories, d, data, s) ==
    Having(<<data, s>>,
        IF d > Len(dates) THEN [rows |-> data, rng |-> s]
        ELSE TimeSeriesLoop(dates, categories, d + 1,
                            data \o InnerLoop(dates[d], categories, Len(data), s),
                            Adv(s, 3 * Len(categories))))

CategoriesButLast(num_categories) == [i \in 1..Max(num_categories - 1, 0) |-> i]

\* Category_1 .. Category_n, each named by its number
Categories(num_categories) == [i \in 1..Max(num_categories, 0) |-> Range(num_categories)[i] + 1]

generate_time_series_data(start_date, end_date, freq, num_categories, s) ==
    TimeSeriesLoop(DateRange(start_date, end_date, freq), Categories(num_categories), 1, << >>, s)

\* the explicit start_date and end_date values a caller passes
FirstDate == Clock0 - Days(16) - 4       \* 2019-02-27 06:00, a Wednesday
CallerDates == {FirstDate, FirstDate + 5, FirstDate + Days(MaxSpanDays)}

NoRun == [valid |-> FALSE]

\* a call is made when the one before it has returned (the generators are
\* synchronous and single-threaded), possibly right after np.random.seed
Ready == lastOp \in {"none", "seed"}

\* the caller that keeps a seeded metrics run to compare makes the metrics
\* call to compare it with before any other call
ReadyFor(op) == Ready /\ (lastRun.valid => op = "metrics")

TimeSeriesReturn(start_date, end_date, freq, n, now, out) ==
    /\ clock' = now
    /\ rng' = out.rng
    /\ lastOp' = "time_series"
    /\ args' = [start_date |-> start_date, end_date |-> end_date, freq |-> freq,
                num_categories |-> n]
    /\ result' = Frame(out.rows)
    /\ rngBefore' = rng
    /\ draws' = 3 * Len(out.rows)
    /\ lastRun' = NoRun
    /\ prevRun' = NoRun

TimeSeriesCall ==
    /\ ReadyFor("time_series")
    /\ \E start \in CallerDates \cup {NoDate}, end \in CallerDates \cup {NoDate},
          freq \in Freqs, n \in -1..MaxCategories, a1 \in 0..1, a2 \in 0..1 :
        LET now1       == clock + a1
            start_date == IF start = NoDate THEN now1 - Days(DefaultLookbackDays) ELSE start
            now2       == now1 + a2
            end_date   == IF end = NoDate THEN now2 ELSE end
        IN  /\ (start # NoDate) => a1 = 0
            /\ (end # NoDate) => a2 = 0
            /\ now2 <= MaxClock
            /\ RangeCount(start_date, end_date, freq) <= MaxTimePoints
            /\ TimeSeriesReturn(start_date, end_date, freq, n, now2,
                   generate_time_series_data(start_date, end_date, freq, n, rng))

----------------------------------------------------------------------------
(* The wall clock.  datetime.now() is read once per record by the sales    *)
(* and customer generators: between two reads the clock stands still or    *)
(* moves on by an hour.                                                    *)

RECURSIVE Elapsed(_, _)
Elapsed(advance, i) == IF i = 0 THEN 0 ELSE Elapsed(advance, i - 1) + advance[i]

\* the values n successive reads return, the clock advancing by advance[i]
\* before the i-th
Reads(now, advance, n) == [i \in 1..Max(n, 0) |-> now + Elapsed(advance, i)]

LastRead(now, reads) == IF Len(reads) = 0 THEN now ELSE reads[Len(reads)]

----------------------------------------------------------------------------
(* generate_sales_data.  unit_price and total_amount are in cents,         *)
(* discount in percent, final_amount in hundredths of a cent.              *)

DefaultSeed == 42
DefaultProducts == 20
DefaultRegions == 5

payment_methods == <<"Credit Card", "Debit Card", "PayPal", "Bank Transfer">>
Discounts == <<0, 5, 10, 15, 20>>
DiscountWeights == <<50, 20, 15, 10, 5>>

TotalAmount(quantity, unit_price) == quantity * unit_price
FinalAmountOfDiscount(total_amount, discount) == total_amount * discount

FinalAmount(total_amount, discount) == total_amount * (100 - discount)

\* df.sort_values('date', ascending=False): whole rows move, rows of equal
\* date keep their order
RECURSIVE InsertByDate(_, _)
InsertByDate(sorted, row) ==
    IF sorted = << >> THEN <<row>>
    ELSE IF row.date > Head(sorted).date THEN <<row>> \o sorted
    ELSE <<Head(sorted)>> \o InsertByDate(Tail(sorted), row)

RECURSIVE SortFrom(_, _, _)
SortFrom(rows, i, sorted) ==
    Having(sorted,
        IF i > Len(rows) THEN sorted
        ELSE SortFrom(rows, i + 1, InsertByDate(sorted, rows[i])))

SortValuesAscending(rows) ==
    [i \in 1..Len(rows) |-> SortFrom(rows, 1, << >>)[Len(rows) + 1 - i]]

SortValuesDescending(rows) == SortFrom(rows, 1, << >>)

SalesRaisesOnEmpty(num_records, num_products, num_regions) ==
    num_records < 0 \/ num_products <= 0 \/ num_regions <= 0

\* np.random.choice(a, size) and the other vectorised draws raise ValueError
\* for a negative size, and choice for an empty a unless size is 0
SalesRaises(num_records, num_products, num_regions) ==
    \/ num_records < 0
    \/ num_records > 0 /\ (num_products <= 0 \/ num_regions <= 0)

\* the variates drawn before the call ends
SalesDraws(num_records, num_products, num_regions) ==
    IF num_records <= 0 THEN 0
    ELSE IF num_products <= 0 THEN num_records
    ELSE IF num_regions <= 0 THEN 2 * num_records
    ELSE 7 * num_records

\* the state the i-th variate of the c-th column (c = 0, 1, ...) is read off:
\* each column is drawn whole, n variates, before the next
Column(s, c, i, n) == Adv(s, c * n + i - 1)

SalesRow(i, n, reads, num_products, num_regions, s) ==
    LET quantity   == RandInt(Column(s, 3, i, n), 1, 10)
        unit_price == Uniform(Column(s, 4, i, n), 1000, 50000)
        discount   == WeightedChoice(Column(s, 6, i, n), Discounts, DiscountWeights)
    IN  [transaction_id |-> i - 1,
         date           |-> reads[i] - Days(RandInt(Column(s, 0, i, n), 0, 365)),
         product        |-> RandInt(Column(s, 1, i, n), 0, num_products) + 1,
         region         |-> RandInt(Column(s, 2, i, n), 0, num_regions) + 1,
         quantity       |-> quantity,
         unit_price     |-> unit_price,
         payment_method |-> Choice(Column(s, 5, i, n), payment_methods),
         total_amount   |-> TotalAmount(quantity, unit_price),
         discount       |-> discount,
         final_amount   |-> FinalAmount(TotalAmount(quantity, unit_price), discount)]

\* the body of the call, np.random in state s: the frame returned and the
\* state of np.random it leaves
SalesFrom(s, num_records, num_products, num_regions, reads) ==
    [frame |-> IF SalesRaises(num_records, num_products, num_regions)
               THEN Raised("ValueError")
               ELSE Frame(SortValuesDescending(
                        [i \in 1..num_records |->
                            SalesRow(i, num_records, reads, num_products, num_regions, s)])),
     rng   |-> Adv(s, SalesDraws(num_records, num_products, num_regions))]

generate_sales_data_unseeded(num_records, num_products, num_regions, reads) ==
    SalesFrom(rng, num_records, num_products, num_regions, reads)

\* np.random.seed(42), then the body
generate_sales_data(num_records, num_products, num_regions, reads) ==
    SalesFrom(SeedState(DefaultSeed), num_records, num_products, num_regions, reads)

SalesReturn(n, num_products, num_regions, now, out) ==
    /\ clock' = now
    /\ rng' = out.rng
    /\ lastOp' = "sales"
    /\ args' = [num_records |-> n, num_products |-> num_products, num_regions |-> num_regions]
    /\ result' = out.frame
    /\ rngBefore' = rng
    /\ draws' = SalesDraws(n, num_products, num_regions)
    /\ lastRun' = NoRun
    /\ prevRun' = NoRun

SalesCall ==
    /\ ReadyFor("sales")
    /\ \E n \in -1..MaxRecords, num_products \in {-1, 0, DefaultProducts},
          num_regions \in {-1, 0, DefaultRegions} :
        \E advance \in [1..Max(n, 0) -> 0..1] :
            LET reads == Reads(clock, advance, n)
            IN  /\ LastRead(clock, reads) <= MaxClock
                /\ SalesReturn(n, num_products, num_regions, LastRead(clock, reads),
                       generate_sales_data(n, num_products, num_regions, reads))

----------------------------------------------------------------------------
(* generate_customer_data.  lifetime_value and average_order_value are in  *)
(* whole currency units.                                                   *)

segments == <<"Premium", "Standard", "Basic">>
SegmentWeights == <<20, 50, 30>>
statuses == <<"Active", "Inactive", "Churned">>
StatusWeights == <<70, 20, 10>>
countries == <<"USA", "UK", "Germany", "France", "Canada", "Australia", "Japan">>

CustomerRow(i, n, reads, s) ==
    [customer_id         |-> i - 1,
     signup_date         |-> reads[i] - Days(RandInt(Column(s, 0, i, n), 0, 730)),
     segment             |-> WeightedChoice(Column(s, 1, i, n), segments, SegmentWeights),
     status              |-> WeightedChoice(Column(s, 2, i, n), statuses, StatusWeights),
     country             |-> Choice(Column(s, 3, i, n), countries),
     total_purchases     |-> RandInt(Column(s, 4, i, n), 1, 100),
     lifetime_value      |-> Uniform(Column(s, 5, i, n), 100, 10000),
     average_order_value |-> Uniform(Column(s, 6, i, n), 20, 500)]

generate_customer_data(num_customers, reads) ==
    LET s == SeedState(DefaultSeed)
    IN  [frame |-> IF num_customers < 0
                   THEN Raised("ValueError")
                   ELSE Frame([i \in 1..num_customers |-> CustomerRow(i, num_customers, reads, s)]),
         rng   |-> Adv(s, 7 * Max(num_customers, 0))]

CustomerReturn(n, now, out) ==
    /\ clock' = now
    /\ rng' = out.rng
    /\ lastOp' = "customer"
    /\ args' = [num_customers |-> n]
    /\ result' = out.frame
    /\ rngBefore' = rng
    /\ draws' = 7 * Max(n, 0)
    /\ lastRun' = NoRun
    /\ prevRun' = NoRun

CustomerCall ==
    /\ ReadyFor("customer")
    /\ \E n \in -1..MaxRecords :
        \E advance \in [1..Max(n, 0) -> 0..1] :
            LET reads == Reads(clock, advance, n)
            IN  /\ LastRead(clock, reads) <= MaxClock
                /\ CustomerReturn(n, LastRead(clock, reads), generate_customer_data(n, reads))

----------------------------------------------------------------------------
(* generate_metrics_data.  value and revenue are in tenths, conversion_rate *)
(* and retention_rate in ten-thousandths (RateOne is 1.0).                 *)

RateOne == 10000

ClampRateBelow(x) == Max(0, x)

\* min(1.0, max(0, x))
ClampRate(x) == Min(RateOne, Max(0, x))

\* np.random.choice([0.5, 2.0]), in halves
AnomalyFactors == <<1, 4>>
AnomalyPercent == 5

\* the variates drawn for the anomaly of one row, whose first is read off s:
\* none unless anomalies are asked for, then np.random.random(), and
\* np.random.choice only when that is below 0.05
AnomalyDraws(include_anomalies, s) ==
    IF ~include_anomalies THEN 0
    ELSE IF RandomBelow(s, AnomalyPercent) THEN 2 ELSE 1

\* value after the anomaly, if there is one
WithAnomaly(value, include_anomalies, s) ==
    IF include_anomalies /\ RandomBelow(s, AnomalyPercent)
    THEN (value * Choice(NextRng(s), AnomalyFactors)) \div 2
    ELSE value

\* row i (from 0) of the table, its variates read off s and its successors
MetricsRow(i, date, include_anomalies, s) ==
    LET trend    == i * 50
        seasonal == Sin1000(i, 7)
        noise    == 500 * Normal(s)
        value    == WithAnomaly(10000 + trend + seasonal + noise, include_anomalies, NextRng(s))
        s2       == Adv(s, 1 + AnomalyDraws(include_anomalies, NextRng(s)))
    IN  [date                |-> date,
         revenue             |-> Max(0, value),
         orders              |-> Max(0, value + 5000 * Normal(s2)) \div 500,
         new_customers       |-> Max(0, 20 + 5 * Normal(Adv(s2, 1))),
         returning_customers |-> Max(0, 50 + 10 * Normal(Adv(s2, 2))),
         conversion_rate     |-> ClampRate(300 + 50 * Normal(Adv(s2, 3)))]

MetricsRowDraws(include_anomalies, s) == 5 + AnomalyDraws(include_anomalies, NextRng(s))

\* for i, date in enumerate(dates): data.append(...)
RECURSIVE MetricsLoop(_, _, _, _, _, _)
MetricsLoop(dates, include_anomalies, i, data, s, n) ==
    Having(<<data, s, n>>,
        IF i >= Len(dates) THEN [rows |-> data, rng |-> s, draws |-> n]
        ELSE MetricsLoop(dates, include_anomalies, i + 1,
                         Append(data, MetricsRow(i, dates[i + 1], include_anomalies, s)),
                         Adv(s, MetricsRowDraws(include_anomalies, s)),
                         n + MetricsRowDraws(include_anomalies, s)))

generate_metrics_data_reseeded(num_days, include_anomalies, now1, now2, s) ==
    MetricsLoop(DateRange(now1 - Days(num_days), now2, "D"), include_anomalies, 0, << >>,
                SeedState(now1), 0)

\* now1 and now2: what the two calls of datetime.now() return
generate_metrics_data(num_days, include_anomalies, now1, now2, s) ==
    MetricsLoop(DateRange(now1 - Days(num_days), now2, "D"), include_anomalies, 0, << >>, s, 0)

\* the call as a run to compare with a later one, when it was made right
\* after np.random.seed
MetricsRun(num_days, include_anomalies, now1, now2, rows) ==
    IF lastOp = "seed"
    THEN [valid |-> TRUE, seed |-> args.seed, num_days |-> num_days,
          include_anomalies |-> include_anomalies, now1 |-> now1, now2 |-> now2, rows |-> rows]
    ELSE NoRun

MetricsReturn(num_days, include_anomalies, now1, now2, out) ==
    /\ clock' = now2
    /\ rng' = out.rng
    /\ lastOp' = "metrics"
    /\ args' = [num_days |-> num_days, include_anomalies |-> include_anomalies]
    /\ result' = Frame(out.rows)
    /\ rngBefore' = rng
    /\ draws' = out.draws
    /\ lastRun' = MetricsRun(num_days, include_anomalies, now1, now2, out.rows)
    /\ prevRun' = IF lastOp = "seed" THEN lastRun ELSE NoRun

MetricsCall ==
    /\ ReadyFor("metrics")
    /\ \E num_days \in -1..MaxDays, include_anomalies \in BOOLEAN, a1 \in 0..1, a2 \in 0..1 :
        /\ clock + a1 + a2 <= MaxClock
        /\ MetricsReturn(num_days, include_anomalies, clock + a1, clock + a1 + a2,
               generate_metrics_data(num_days, include_anomalies, clock + a1, clock + a1 + a2, rng))

----------------------------------------------------------------------------
(* generate_cohort_data.                                                   *)

MonthsTracked == 12
DaysPerCohort == 30

CohortRowOwnSize(cohort_date, cohort_size, month, s) ==
    LET retention == ClampRate((100 * Uniform(s, 800, 1200)) \div (10 + 3 * month))
        size      == RandInt(s, 100, 1000)
    IN  [cohort         |-> cohort_date,
         month          |-> month,
         cohort_size    |-> size,
         retained_users |-> (size * retention) \div RateOne,
         retention_rate |-> retention]

\* month `month` of a cohort: one variate, read off s
CohortRow(cohort_date, cohort_size, month, s) ==
    LET \* base_retention * jitter: 1 / (1 + 0.3 * month) times a jitter in thousandths
        retention == ClampRate((100 * Uniform(s, 800, 1200)) \div (10 + 3 * month))
    IN  [cohort         |-> cohort_date,
         month          |-> month,
         cohort_size    |-> cohort_size,
         retained_users |-> (cohort_size * retention) \div RateOne,
         retention_rate |-> retention]

\* for month in range(12): data.append(...), for one cohort
MonthLoop(cohort_date, cohort_size, s) ==
    [m \in 1..MonthsTracked |-> CohortRow(cohort_date, cohort_size, m - 1, Adv(s, m - 1))]

\* for cohort_date in cohorts: cohort_size = np.random.randint(100, 1000),
\* then the inner loop
RECURSIVE CohortLoop(_, _, _, _)
CohortLoop(cohorts, c, data, s) ==
    Having(<<data, s>>,
        IF c > Len(cohorts) THEN [rows |-> data, rng |-> s]
        ELSE CohortLoop(cohorts, c + 1,
                        data \o MonthLoop(cohorts[c], RandInt(s, 100, 1000), NextRng(s)),
                        Adv(s, 1 + MonthsTracked)))

\* pd.date_range(periods=n) with n < 0 raises ValueError in the pandas
\* versions that validate periods (strict) and is an empty range in the others
generate_cohort_data(num_cohorts, now, strict, s) ==
    IF num_cohorts < 0 /\ strict
    THEN [frame |-> Raised("ValueError"), rng |-> s]
    ELSE LET out == CohortLoop(DateRangePeriods(now - Days(num_cohorts * DaysPerCohort),
                                                Max(num_cohorts, 0), "MS"),
                               1, << >>, s)
         IN  [frame |-> Frame(out.rows), rng |-> out.rng]

CohortReturn(num_cohorts, now, out) ==
    /\ clock' = now
    /\ rng' = out.rng
    /\ lastOp' = "cohort"
    /\ args' = [num_cohorts |-> num_cohorts]
    /\ result' = out.frame
    /\ rngBefore' = rng
    /\ draws' = (MonthsTracked + 1) * (Len(out.frame.rows) \div MonthsTracked)
    /\ lastRun' = NoRun
    /\ prevRun' = NoRun

CohortCall ==
    /\ ReadyFor("cohort")
    /\ \E num_cohorts \in -1..MaxCohorts, strict \in BOOLEAN, a1 \in 0..1 :
        /\ clock + a1 <= MaxClock
        /\ strict => num_cohorts < 0
        /\ CohortReturn(num_cohorts, clock + a1,
               generate_cohort_data(num_cohorts, clock + a1, strict, rng))

----------------------------------------------------------------------------
(* np.random.seed, called by a test or an application between two calls.   *)

Seeds == {DefaultSeed, 0}

\* the caller either holds no table or keeps the seeded metrics run it has
\* just made, to compare the next with
Seed ==
    /\ lastOp = "none" \/ (lastOp = "metrics" /\ lastRun.valid)
    /\ \E seed \in Seeds :
        /\ rng' = SeedState(seed)
        /\ lastOp' = "seed"
        /\ args' = [seed |-> seed]
        /\ result' = Frame(<< >>)
        /\ rngBefore' = SeedState(seed)
        /\ draws' = 0
        /\ prevRun' = NoRun
        /\ UNCHANGED <<clock, lastRun>>

----------------------------------------------------------------------------

Init ==
    /\ rng \in RngStates
    /\ clock = Clock0
    /\ lastOp = "none"
    /\ args = [x |-> 0]
    /\ result = Frame(<< >>)
    /\ rngBefore = rng
    /\ draws = 0
    /\ lastRun = NoRun
    /\ prevRun = NoRun

\* the caller lets go of the tables it was returned
Discard ==
    /\ lastOp \notin {"none", "seed"}
    /\ lastOp' = "none"
    /\ args' = [x |-> 0]
    /\ result' = Frame(<< >>)
    /\ rngBefore' = rng
    /\ draws' = 0
    /\ lastRun' = NoRun
    /\ prevRun' = NoRun
    /\ UNCHANGED <<rng, clock>>

Next ==
    \/ TimeSeriesCall
    \/ SalesCall
    \/ CustomerCall
    \/ MetricsCall
    \/ CohortCall
    \/ Seed
    \/ Discard

Spec == Init /\ [][Next]_vars

----------------------------------------------------------------------------
(* The claims.                                                             *)

Generators == {"time_series", "sales", "customer", "metrics", "cohort"}

\* the number of rows of the table that hold date d and category c
RowsWith(rows, d, c) == Cardinality({k \in 1..Len(rows) : rows[k].date = d /\ rows[k].category = c})

\* whether t is a point of the grid of freq that start sets: every hour or
\* day from start on, or the Sundays or the first days of a month at start's
\* time of day
OnGrid(t, start, freq) ==
    CASE freq = "H" -> TRUE
      [] freq = "D" -> (t - start) % Days(1) = 0
      [] freq = "W" -> HourOf(t) = HourOf(start) /\ Weekday(t) = 6
      [] freq = "MS" -> HourOf(t) = HourOf(start) /\ DayOfMonth(t) = 1

TimePoints(start, end, freq) == {t \in start..end : OnGrid(t, start, freq)}

\* C1: for start_date <= end_date and num_categories >= 0 the time-series
\* table has |TimePoints| x num_categories rows, TimePoints being the points
\* of the grid of freq from start_date to end_date: every (date, category)
\* pair is in exactly one row, and the rows go date by date in ascending
\* order and, within a date, category by category.
C1_TimeSeriesRows ==
    (lastOp = "time_series" /\ args.start_date <= args.end_date /\ args.num_categories >= 0) =>
        LET points == TimePoints(args.start_date, args.end_date, args.freq)
            n      == args.num_categories
            rows   == result.rows
        IN  /\ result.status = "ok"
            /\ Len(rows) = Cardinality(points) * n
            /\ \A d \in points : \A c \in 1..n : RowsWith(rows, d, c) = 1
            /\ \A k \in 1..(Len(rows) - 1) :
                \/ rows[k].date < rows[k + 1].date /\ rows[k + 1].category = 1
                \/ rows[k].date = rows[k + 1].date /\ rows[k + 1].category = rows[k].category + 1

C1_Witness ==
    /\ lastOp = "time_series"
    /\ args.start_date <= args.end_date
    /\ args.freq = "W"
    /\ args.num_categories = 2
    /\ Len(result.rows) = 4
    /\ result.rows[2].date < result.rows[3].date

\* C2: generate_sales_data(num_records), num_records >= 0 and the other
\* arguments at their defaults, returns num_records rows in non-increasing
\* order of date, whatever state np.random was in before the call.
C2_SalesSortedByDate ==
    (/\ lastOp = "sales"
     /\ args.num_records >= 0
     /\ args.num_products = DefaultProducts
     /\ args.num_regions = DefaultRegions) =>
        /\ result.status = "ok"
        /\ Len(result.rows) = args.num_records
        /\ \A i \in 1..(Len(result.rows) - 1) : result.rows[i].date >= result.rows[i + 1].date

\* three records that were not generated in the order they are returned in
C2_Witness ==
    /\ lastOp = "sales"
    /\ result.status = "ok"
    /\ Len(result.rows) = 3
    /\ rngBefore # SeedState(DefaultSeed)
    /\ \E i \in 1..2 : result.rows[i].transaction_id > result.rows[i + 1].transaction_id
    /\ \A i \in 1..2 : result.rows[i].date > result.rows[i + 1].date

\* C3: in every row generate_sales_data returns, after the sort and the
\* index reset, discount is one of 0, 0.05, 0.10, 0.15, 0.20 and final_amount
\* is total_amount * (1 - discount) of that same row, total_amount being
\* quantity * unit_price of that row.
C3_SalesDerivedFields ==
    lastOp = "sales" =>
        \A i \in 1..Len(result.rows) :
            LET row == result.rows[i]
            IN  /\ row.discount \in {0, 5, 10, 15, 20}
                /\ row.total_amount = row.quantity * row.unit_price
                /\ row.final_amount = row.total_amount * (100 - row.discount)

\* rows moved by the sort, one of them discounted
C3_Witness ==
    /\ lastOp = "sales"
    /\ Len(result.rows) = 3
    /\ \E i \in 1..3 : result.rows[i].transaction_id # i - 1
    /\ \E i \in 1..3 : result.rows[i].discount > 0 /\ result.rows[i].final_amount > 0

\* C4: every retention_rate of generate_cohort_data and every
\* conversion_rate of generate_metrics_data is in [0, 1], whatever the jitter
\* and the noise, for every month and with or without anomalies.
C4_RatesInUnitInterval ==
    /\ lastOp = "cohort" =>
        \A i \in 1..Len(result.rows) :
            0 <= result.rows[i].retention_rate /\ result.rows[i].retention_rate <= RateOne
    /\ lastOp = "metrics" =>
        \A i \in 1..Len(result.rows) :
            0 <= result.rows[i].conversion_rate /\ result.rows[i].conversion_rate <= RateOne

\* a metrics table with anomalies in which both clamps have acted
C4_Witness ==
    /\ lastOp = "metrics"
    /\ args.include_anomalies
    /\ \E i \in 1..Len(result.rows) : result.rows[i].conversion_rate = 0
    /\ \E i \in 1..Len(result.rows) : result.rows[i].conversion_rate = RateOne

\* two metrics calls, each made right after np.random.seed, with the same
\* seed, num_days and include_anomalies
SameRun == /\ lastRun.valid
           /\ prevRun.valid
           /\ lastRun.seed = prevRun.seed
           /\ lastRun.num_days = prevRun.num_days
           /\ lastRun.include_anomalies = prevRun.include_anomalies

\* a row without its date: the fields computed from the random source
Drawn(row) == [revenue |-> row.revenue, orders |-> row.orders,
               new_customers |-> row.new_customers,
               returning_customers |-> row.returning_customers,
               conversion_rate |-> row.conversion_rate]

C6_ZeroGivesEmptyTable ==
    (\/ lastOp = "time_series" /\ args.num_categories = 0
     \/ lastOp = "sales" /\ args.num_records = 0
     \/ lastOp = "customer" /\ args.num_customers = 0
     \/ lastOp = "cohort" /\ args.num_cohorts = 0) =>
        result.status = "ok" /\ result.rows = << >>

\* no records asked of no products
C6_Witness ==
    /\ lastOp = "sales"
    /\ args.num_records = 0
    /\ args.num_products = 0
    /\ result.status = "ok"

\* the count argument of the last call that is negative, if one is
NegativeCount ==
    \/ lastOp = "time_series" /\ args.num_categories < 0
    \/ lastOp = "sales" /\ (args.num_records < 0 \/ args.num_products < 0 \/ args.num_regions < 0)
    \/ lastOp = "customer" /\ args.num_customers < 0
    \/ lastOp = "metrics" /\ args.num_days < 0
    \/ lastOp = "cohort" /\ args.num_cohorts < 0

\* C7: a generator called with a negative count fails with an
\* invalid-argument error and returns no table.
C7_NegativeCountRaises == NegativeCount => result.status # "ok"

\* C8: generate_cohort_data(num_cohorts = M), M >= 1, returns 12 x M rows:
\* M distinct month-start cohort timestamps and, for each, 12 consecutive
\* rows with month 0..11 in that order and one cohort_size of 100..999.
C8_CohortRows ==
    (lastOp = "cohort" /\ args.num_cohorts >= 1) =>
        LET rows == result.rows
            M    == args.num_cohorts
        IN  /\ result.status = "ok"
            /\ Len(rows) = MonthsTracked * M
            /\ \A i \in 1..Len(rows) :
                LET first == rows[i - ((i - 1) % MonthsTracked)]
                IN  /\ rows[i].month = (i - 1) % MonthsTracked
                    /\ rows[i].cohort = first.cohort
                    /\ rows[i].cohort_size = first.cohort_size
                    /\ 100 <= rows[i].cohort_size /\ rows[i].cohort_size < 1000
                    /\ DayOfMonth(rows[i].cohort) = 1
            /\ Cardinality({rows[i].cohort : i \in 1..Len(rows)}) = M

\* two cohorts of different sizes
C8_Witness ==
    /\ lastOp = "cohort"
    /\ args.num_cohorts = 2
    /\ Len(result.rows) = 2 * MonthsTracked
    /\ result.rows[1].cohort_size # result.rows[MonthsTracked + 1].cohort_size

\* C9: generate_metrics_data(num_days = N), N >= 1, returns one row per day
\* over N days: N rows, each date a day after the one before.
C9_OneRowPerDay ==
    (lastOp = "metrics" /\ args.num_days >= 1) =>
        /\ Len(result.rows) = args.num_days
        /\ \A i \in 1..(Len(result.rows) - 1) :
            result.rows[i + 1].date = result.rows[i].date + Days(1)

\* C10, as claimed: every generator call leaves np.random at the state its
\* own draws lead to from the state before the call; none resets it.
C10_OnlyAdvances == lastOp \in Generators => rng = Adv(rngBefore, draws)

\* C10, amended: the time-series, metrics and cohort generators leave
\* np.random at the state their draws lead to from the state before the call;
\* the sales and customer generators first reset it with seed 42 and leave it
\* at the state their draws lead to from there, whatever it was before.
C10_AdvancesOrReseeds ==
    /\ lastOp \in {"time_series", "metrics", "cohort"} => rng = Adv(rngBefore, draws)
    /\ lastOp \in {"sales", "customer"} => rng = Adv(SeedState(DefaultSeed), draws)

\* a sales call that drew, from a state other than the one it left
C10_Witness ==
    /\ lastOp = "sales"
    /\ draws > 0
    /\ rngBefore # SeedState(DefaultSeed)
    /\ rng # Adv(rngBefore, draws)
====
